---- MODULE Spec2Model ----
(***************************************************************************)
(* A model of src/rag_chatbot.py: the Chatbot class, its knowledge base    *)
(* (problem_ids, problem_data_map, the FAISS inner-product index), the     *)
(* builder _build_knowledge_base, the retriever _retrieve_relevant_info    *)
(* and respond.                                                            *)
(*                                                                         *)
(* Strings are sequences of one-character strings, so that str.endswith    *)
(* and os.path.splitext are computed as Python computes them.  Embedding   *)
(* vectors are short integer sequences drawn from a small sample set: the  *)
(* BERT model is an opaque text -> vector capability.  Python's 0-based    *)
(* handles are kept 0-based; a Python list l is a sequence s with          *)
(* l[i] = s[i + 1].                                                        *)
(***************************************************************************)
EXTENDS Integers, Sequences, FiniteSets, TLC

VARIABLES
    pc,                \* where the single thread of control is
    listing,           \* what os.listdir(PROBLEM_PATH) returns
    pos,               \* the builder's position in listing (next file, 1-based)
    embeddings,        \* _build_knowledge_base's local list
    problem_ids,       \* self.problem_ids
    problem_data_map,  \* self.problem_data_map
    index,             \* the vectors held by self.index, in handle order
    stdout,            \* the builder's printed lines
    built,             \* history: (id, vector) of every document built, in order
    nbuilds,           \* history: how many times _build_knowledge_base was entered
    current_problem,   \* whether the base class holds a current problem
    caller,            \* who called _retrieve_relevant_info
    top_k,             \* its top_k argument
    query_embedding,   \* its local, <<>> before it is computed
    hits,              \* zip(indices[0], distances[0]) as returned by search
    results,           \* its results list / return value
    raised,            \* history: the exception raised in its try block, or "none"
    outcome,           \* how the call ended: "none", "returned", "raised"
    diag,              \* the "Retrieval error" line printed by the call, if any
    calls,             \* history: embedder / index / store uses of the call
    derefs,            \* history: handles used to subscript problem_ids
    reply              \* what respond returned last

vars == <<pc, listing, pos, embeddings, problem_ids, problem_data_map, index,
          stdout, built, nbuilds, current_problem, caller, top_k,
          query_embedding, hits, results, raised, outcome, diag, calls,
          derefs, reply>>

kb == <<problem_ids, problem_data_map, index>>
buildVars == <<listing, pos, embeddings, problem_ids, problem_data_map, index,
               stdout, built, nbuilds>>
callVars == <<caller, top_k, query_embedding, hits, results, raised, outcome,
              diag, calls, derefs>>

\* ---------------------------------------------------------------- bounds

MaxFiles == 2
MaxK == 3

\* --------------------------------------------------------------- strings

Json == <<".", "j", "s", "o", "n">>

\* str.endswith
EndsWith(s, suffix) ==
    /\ Len(s) >= Len(suffix)
    /\ SubSeq(s, Len(s) - Len(suffix) + 1, Len(s)) = suffix

\* The position of the last "." of p, 0 when there is none (str.rfind + 1).
LastDot(p) ==
    IF \E i \in 1..Len(p) : p[i] = "."
    THEN CHOOSE i \in 1..Len(p) :
            /\ p[i] = "."
            /\ \A j \in (i + 1)..Len(p) : p[j] # "."
    ELSE 0

\* os.path.splitext(p)[0] for a name without directory separators: the name
\* up to its last dot, unless only dots precede that dot (leading dots are not
\* an extension separator), in which case the whole name.
SplitextRoot(p) ==
    LET d == LastDot(p) IN
    IF d > 0 /\ \E i \in 1..(d - 1) : p[i] # "."
    THEN SubSeq(p, 1, d - 1)
    ELSE p

\* str.strip for the blank character
RECURSIVE LStrip(_)
LStrip(s) == IF s # <<>> /\ Head(s) = " " THEN LStrip(Tail(s)) ELSE s

RECURSIVE RStrip(_)
RStrip(s) ==
    IF s # <<>> /\ s[Len(s)] = " " THEN RStrip(SubSeq(s, 1, Len(s) - 1)) ELSE s

Strip(s) == LStrip(RStrip(s))

\* str.lower, for the capitals the sample inputs use
LowerChar(c) == IF c = "H" THEN "h" ELSE IF c = "S" THEN "s" ELSE c
Lower(s) == [i \in 1..Len(s) |-> LowerChar(s[i])]

\* `sub in s`
Contains(s, sub) ==
    \E i \in 0..(Len(s) - Len(sub)) : SubSeq(s, i + 1, i + Len(sub)) = sub

\* The directory entries the model draws os.listdir's result from.
FileNames ==
    { <<"a">> \o Json,
      <<"b">> \o Json,
      <<"a", ".", "t", "x", "t">>,
      Json,
      Json \o Json }

IsInjective(s) == \A i, j \in 1..Len(s) : i # j => s[i] # s[j]

\* os.listdir: the names of a directory, each once, in arbitrary order.
Listings ==
    UNION { {s \in [1..n -> FileNames] : IsInjective(s)} : n \in 0..MaxFiles }

\* -------------------------------------------------------------- embedder

\* Sample outputs of _get_bert_embedding for document contexts and queries.
Vectors == { <<1, 0>>, <<0, 1>>, <<1, 1>> }
QueryVectors == { <<1, 0>>, <<-1, 1>> }

\* ------------------------------------------------------------ collaborators

\* A printed line or a returned message.
Line(kind, arg) == [kind |-> kind, arg |-> arg]

\* load_problem(problem_id, ...): the document loaded for an identifier.
LoadProblem(id) == [problem |-> id]

\* The stages of a document's build that can raise inside the try block.
BuildStages == {"load", "render", "embed"}

\* The user inputs the model draws from: "Hey", "this", "Sort ".
UserInputs ==
    { <<"H", "e", "y">>, <<"t", "h", "i", "s">>, <<"S", "o", "r", "t", " ">> }

Greetings == { <<"h", "i">>, <<"h", "e", "l", "l", "o">>, <<"h", "e", "y">> }

\* any(greet in user_input.lower() for greet in ["hi", "hello", "hey"])
IsGreeting(user_input) == \E g \in Greetings : Contains(Lower(user_input), g)

\* ------------------------------------------------------------------ Init

Init ==
    /\ pc = "new"
    /\ listing \in Listings
    /\ pos = 1
    /\ embeddings = <<>>
    /\ problem_ids = <<>>
    /\ problem_data_map = <<>>
    /\ index = <<>>
    /\ stdout = <<>>
    /\ built = <<>>
    /\ nbuilds = 0
    /\ current_problem = FALSE
    /\ caller = "none"
    /\ top_k = 0
    /\ query_embedding = <<>>
    /\ hits = <<>>
    /\ results = <<>>
    /\ raised = "none"
    /\ outcome = "none"
    /\ diag = <<>>
    /\ calls = <<>>
    /\ derefs = <<>>
    /\ reply = Line("none", <<>>)

\* --------------------------------------------------------------- builder

\* Mutant: the constructor leaves the build for later and the object is
\* ready at once.
Construct_Mut ==
    /\ pc = "new"
    /\ pc' = "ready"
    /\ UNCHANGED <<current_problem, reply>>
    /\ UNCHANGED callVars
    /\ UNCHANGED buildVars

\* Chatbot.__init__ up to its call of _build_knowledge_base, and the
\* builder's first two statements.
Construct ==
    /\ pc = "new"
    /\ problem_ids' = <<>>
    /\ problem_data_map' = <<>>
    /\ index' = <<>>
    /\ embeddings' = <<>>
    /\ pos' = 1
    /\ nbuilds' = nbuilds + 1
    /\ stdout' = Append(stdout, Line("building", <<>>))
    /\ pc' = "build"
    /\ UNCHANGED <<listing, built, current_problem, reply>>
    /\ UNCHANGED callVars

\* One iteration of the loop over os.listdir for a name that is not *.json.
BuildSkip ==
    /\ pc = "build"
    /\ pos <= Len(listing)
    /\ ~EndsWith(listing[pos], Json)
    /\ pos' = pos + 1
    /\ UNCHANGED <<pc, listing, embeddings, problem_ids, problem_data_map,
                   index, stdout, built, nbuilds, current_problem, reply>>
    /\ UNCHANGED callVars

\* One iteration in which load, render and embed all succeed.
BuildOk(vec) ==
    /\ pc = "build"
    /\ pos <= Len(listing)
    /\ EndsWith(listing[pos], Json)
    /\ LET problem_id == SplitextRoot(listing[pos])
           problem_data == LoadProblem(problem_id)
       IN /\ embeddings' = Append(embeddings, vec)
          /\ problem_ids' = Append(problem_ids, problem_id)
          /\ problem_data_map' =
                [k \in DOMAIN problem_data_map \cup {problem_id} |->
                    IF k = problem_id THEN problem_data ELSE problem_data_map[k]]
          /\ built' = Append(built, [id |-> problem_id, vec |-> vec])
    /\ pos' = pos + 1
    /\ UNCHANGED <<pc, listing, index, stdout, nbuilds, current_problem, reply>>
    /\ UNCHANGED callVars

\* Mutant: no try/except around a document: its exception leaves the builder
\* and the constructor.
BuildFail_Mut(stage) ==
    /\ pc = "build"
    /\ pos <= Len(listing)
    /\ EndsWith(listing[pos], Json)
    /\ pc' = "aborted"
    /\ UNCHANGED <<current_problem, reply>>
    /\ UNCHANGED callVars
    /\ UNCHANGED buildVars

\* One iteration in which load_problem, _create_problem_context or
\* _get_bert_embedding raises: the except clause prints and continues.
BuildFail(stage) ==
    /\ pc = "build"
    /\ pos <= Len(listing)
    /\ EndsWith(listing[pos], Json)
    /\ stdout' = Append(stdout, Line("error", [id |-> SplitextRoot(listing[pos]),
                                                why |-> stage]))
    /\ pos' = pos + 1
    /\ UNCHANGED <<pc, listing, embeddings, problem_ids, problem_data_map,
                   index, built, nbuilds, current_problem, reply>>
    /\ UNCHANGED callVars

\* After the loop: the bulk load of the index and the summary line.
BuildFinish ==
    /\ pc = "build"
    /\ pos > Len(listing)
    /\ index' = IF embeddings # <<>> THEN index \o embeddings ELSE index
    /\ stdout' = Append(stdout, Line("built", Len(problem_ids)))
    /\ pc' = "ready"
    /\ UNCHANGED <<listing, pos, embeddings, problem_ids, problem_data_map,
                   built, nbuilds, current_problem, reply>>
    /\ UNCHANGED callVars

\* ---------------------------------------------------------- vector index

RECURSIVE DotFrom(_, _, _)
DotFrom(u, v, i) ==
    IF i > Len(u) THEN 0 ELSE u[i] * v[i] + DotFrom(u, v, i + 1)

\* Inner product, the similarity of IndexFlatIP.
Dot(u, v) == DotFrom(u, v, 1)

AllScores == { Dot(u, q) : u \in Vectors, q \in QueryVectors }

\* The score the index reports beside a "no result" handle: below every
\* score of a stored vector.
SentinelScore == (CHOOSE s \in AllScores : \A t \in AllScores : s <= t) - 1

Sentinel == [idx |-> -1, score |-> SentinelScore]

Min(a, b) == IF a <= b THEN a ELSE b

\* index.search(query, k) for one query: the possible (handle, score) rows.
\* The min(k, n) best handles by descending inner product (ties in any
\* order), then sentinel rows up to length k.
Search(vectors, q, k) ==
    LET n == Len(vectors)
        m == Min(k, n)
        Score(h) == Dot(vectors[h + 1], q)
        Ranked == { s \in [1..m -> 0..(n - 1)] :
                      /\ IsInjective(s)
                      /\ \A i, j \in 1..m : i < j => Score(s[i]) >= Score(s[j])
                      /\ \A h \in 0..(n - 1) :
                            (\A i \in 1..m : s[i] # h) =>
                                \A i \in 1..m : Score(h) <= Score(s[i]) }
    IN { [i \in 1..k |-> IF i <= m
                         THEN [idx |-> s[i], score |-> Score(s[i])]
                         ELSE Sentinel] : s \in Ranked }

\* ------------------------------------------------------------- retriever

\* The exceptions (all subclasses of Exception) the try block can meet.
Exceptions == {"EmbeddingError", "SearchError", "IndexError", "KeyError"}

\* Mutant: the handler is narrowed to the embedder's failure.
Catches_Mut(exc) == exc = "EmbeddingError"

\* `except Exception`: which of them the handler catches.
Catches(exc) == exc \in Exceptions

\* Mutant: the test is off by one and lets the sentinel -1 through.
IsHit_Mut(idx) == idx >= -1

\* Mutant: the rows are mapped without any test.
IsHit_NoFilter(idx) == TRUE

\* `if idx >= 0`: the rows that are mapped to a result.
IsHit(idx) == idx >= 0

\* Python's list subscript l[i]: negative i counts from the end.
InRange(l, i) == IF i >= 0 THEN i < Len(l) ELSE Len(l) + i >= 0
Subscript(l, i) == IF i >= 0 THEN l[i + 1] ELSE l[Len(l) + i + 1]

\* Mutant: the document is looked up for the first identifier, not the row's.
ResultFor_Mut(ids, map, row) ==
    LET problem_id == Subscript(ids, row.idx)
    IN [pid |-> problem_id, score |-> row.score, data |-> map[Subscript(ids, 0)]]

\* The tuple appended for a row.
ResultFor(ids, map, row) ==
    LET problem_id == Subscript(ids, row.idx)
    IN [pid |-> problem_id, score |-> row.score, data |-> map[problem_id]]

\* Mutant: results.insert(0, ...)
Emit_Mut(res, t) == <<t>> \o res

\* results.append(...)
Emit(res, t) == Append(res, t)

\* The loop over zip(indices[0], distances[0]) from row i on, given the
\* results and subscripted handles so far.  exc is the exception that ended
\* the loop, "none" if it ran to its end.
RECURSIVE ResolveFrom(_, _, _, _, _, _)
ResolveFrom(ids, map, rows, i, res, used) ==
    IF i > Len(rows) THEN [results |-> res, derefs |-> used, exc |-> "none"]
    ELSE IF ~IsHit(rows[i].idx)
         THEN ResolveFrom(ids, map, rows, i + 1, res, used)
    ELSE LET u == Append(used, rows[i].idx) IN
         IF ~InRange(ids, rows[i].idx)
         THEN [results |-> res, derefs |-> u, exc |-> "IndexError"]
         ELSE IF Subscript(ids, rows[i].idx) \notin DOMAIN map
         THEN [results |-> res, derefs |-> u, exc |-> "KeyError"]
         ELSE ResolveFrom(ids, map, rows, i + 1,
                          Emit(res, ResultFor(ids, map, rows[i])), u)

Resolve(ids, map, rows) == ResolveFrom(ids, map, rows, 1, <<>>, <<>>)

\* `top_k=3`
TopKDefault == 3

\* Entry of _retrieve_relevant_info(query, top_k): fresh locals.
Enter(who, k) ==
    /\ caller' = who
    /\ top_k' = k
    /\ query_embedding' = <<>>
    /\ hits' = <<>>
    /\ results' = <<>>
    /\ raised' = "none"
    /\ outcome' = "none"
    /\ diag' = <<>>
    /\ calls' = <<>>
    /\ derefs' = <<>>
    /\ pc' = "embed"

\* An exception raised inside the try block: the handler prints and returns
\* [] when it catches it; otherwise the exception leaves the function.
Raise(exc) ==
    /\ raised' = exc
    /\ IF Catches(exc)
       THEN /\ diag' = <<Line("retrieval error", exc)>>
            /\ results' = <<>>
            /\ outcome' = "returned"
       ELSE /\ diag' = diag
            /\ results' = results
            /\ outcome' = "raised"
    /\ pc' = "return"

\* A direct call of the retriever with any top_k.
CallRetrieve(k) ==
    /\ pc = "ready"
    /\ Enter("direct", k)
    /\ reply' = Line("none", <<>>)
    /\ UNCHANGED current_problem
    /\ UNCHANGED buildVars

\* respond(user_input) when it returns the base class's response: the input
\* greets, or the base class holds no current problem after its own respond
\* (which may set or clear it).
RespondParent(raw, cp) ==
    /\ pc = "ready"
    /\ current_problem' = cp
    /\ IsGreeting(Strip(raw)) \/ ~cp
    /\ reply' = Line("parent", <<>>)
    /\ UNCHANGED pc
    /\ UNCHANGED callVars
    /\ UNCHANGED buildVars

\* respond(user_input) when it goes on to retrieval, with the default top_k.
RespondRetrieve(raw, cp) ==
    /\ pc = "ready"
    /\ current_problem' = cp
    /\ ~(IsGreeting(Strip(raw)) \/ ~cp)
    /\ Enter("respond", TopKDefault)
    /\ reply' = Line("none", <<>>)
    /\ UNCHANGED buildVars

\* self._get_bert_embedding(query) and np.expand_dims.
RetrieveEmbed(q) ==
    /\ pc = "embed"
    /\ query_embedding' = q
    /\ calls' = Append(calls, "embed")
    /\ pc' = "search"
    /\ UNCHANGED <<caller, top_k, hits, results, raised, outcome, diag, derefs,
                   current_problem, reply>>
    /\ UNCHANGED buildVars

\* The embedder raises.
RetrieveEmbedRaises ==
    /\ pc = "embed"
    /\ calls' = Append(calls, "embed")
    /\ Raise("EmbeddingError")
    /\ UNCHANGED <<caller, top_k, query_embedding, hits, derefs,
                   current_problem, reply>>
    /\ UNCHANGED buildVars

\* self.index.search(query_embedding, top_k)
RetrieveSearch ==
    /\ pc = "search"
    /\ \E rows \in Search(index, query_embedding, top_k) : hits' = rows
    /\ calls' = Append(calls, "search")
    /\ pc' = "resolve"
    /\ UNCHANGED <<caller, top_k, query_embedding, results, raised, outcome,
                   diag, derefs, current_problem, reply>>
    /\ UNCHANGED buildVars

\* The index search raises.
RetrieveSearchRaises ==
    /\ pc = "search"
    /\ calls' = Append(calls, "search")
    /\ Raise("SearchError")
    /\ UNCHANGED <<caller, top_k, query_embedding, hits, derefs,
                   current_problem, reply>>
    /\ UNCHANGED buildVars

\* Mutant: the loop appends each hit's identifier to self.problem_ids.
RetrieveResolve_Mut ==
    /\ pc = "resolve"
    /\ LET r == Resolve(problem_ids, problem_data_map, hits) IN
          /\ derefs' = r.derefs
          /\ calls' = calls \o [i \in 1..Len(r.derefs) |-> "lookup"]
          /\ results' = r.results
          /\ problem_ids' =
                problem_ids \o [i \in 1..Len(r.results) |-> r.results[i].pid]
    /\ outcome' = "returned"
    /\ pc' = "return"
    /\ UNCHANGED <<caller, top_k, query_embedding, hits, raised, diag,
                   current_problem, reply>>
    /\ UNCHANGED <<listing, pos, embeddings, problem_data_map, index, stdout,
                   built, nbuilds>>

\* The loop over the rows and `return results`.
RetrieveResolve ==
    /\ pc = "resolve"
    /\ LET r == Resolve(problem_ids, problem_data_map, hits) IN
          /\ derefs' = r.derefs
          /\ calls' = calls \o [i \in 1..Len(r.derefs) |-> "lookup"]
          /\ IF r.exc = "none"
             THEN /\ results' = r.results
                  /\ raised' = raised
                  /\ outcome' = "returned"
                  /\ diag' = diag
                  /\ pc' = "return"
             ELSE Raise(r.exc)
    /\ UNCHANGED <<caller, top_k, query_embedding, hits, current_problem, reply>>
    /\ UNCHANGED buildVars

\* The call's frame is popped: its locals are gone.
Leave ==
    /\ caller' = "none"
    /\ top_k' = 0
    /\ query_embedding' = <<>>
    /\ hits' = <<>>
    /\ results' = <<>>
    /\ raised' = "none"
    /\ outcome' = "none"
    /\ diag' = <<>>
    /\ calls' = <<>>
    /\ derefs' = <<>>
    /\ pc' = "ready"

\* The direct caller receives the value (or the exception).
ReturnDirect ==
    /\ pc = "return"
    /\ caller = "direct"
    /\ Leave
    /\ UNCHANGED <<current_problem, reply>>
    /\ UNCHANGED buildVars

\* respond after retrieval: one "Relevant Problem" block per retrieved tuple
\* goes into the prompt, and the generated response is returned.  An
\* exception that left the retriever leaves respond too.
ReturnRespond ==
    /\ pc = "return"
    /\ caller = "respond"
    /\ reply' = IF outcome = "returned"
                THEN Line("generated", [i \in 1..Len(results) |-> results[i].pid])
                ELSE Line("raised", <<>>)
    /\ Leave
    /\ UNCHANGED current_problem
    /\ UNCHANGED buildVars

Next ==
    \/ Construct
    \/ BuildSkip
    \/ \E vec \in Vectors : BuildOk(vec)
    \/ \E stage \in BuildStages : BuildFail(stage)
    \/ BuildFinish
    \/ \E k \in 1..MaxK : CallRetrieve(k)
    \/ \E raw \in UserInputs, cp \in BOOLEAN : RespondParent(raw, cp)
    \/ \E raw \in UserInputs, cp \in BOOLEAN : RespondRetrieve(raw, cp)
    \/ \E q \in QueryVectors : RetrieveEmbed(q)
    \/ RetrieveEmbedRaises
    \/ RetrieveSearch
    \/ RetrieveSearchRaises
    \/ RetrieveResolve
    \/ ReturnDirect
    \/ ReturnRespond

Spec == Init /\ [][Next]_vars

\* ------------------------------------------------------------ properties

\* The constructor has returned: _build_knowledge_base ran to its end.
BuildDone == pc \in {"ready", "embed", "search", "resolve", "return"}

\* A call of the retriever is at its return statement.
AtReturn == pc = "return"

JsonFiles == { i \in 1..Len(listing) : EndsWith(listing[i], Json) }
ErrorLines == { i \in 1..Len(stdout) : stdout[i].kind = "error" }
RealRows == { i \in 1..Len(hits) : hits[i].idx >= 0 }
Occurrences(id) == { j \in 1..Len(problem_ids) : problem_ids[j] = id }

\* The part of the parallel-sequence invariant that holds of every build:
\* identifiers, index vectors and built documents agree position by position.
PositionsAgree ==
    BuildDone =>
        /\ Len(problem_ids) = Len(index)
        /\ Len(index) = Len(built)
        /\ \A i \in 1..Len(built) :
              /\ problem_ids[i] = built[i].id
              /\ index[i] = built[i].vec

\* Subscripting problem_ids or problem_data_map never raises in a retrieval:
\* the case C4 speaks of (a handle that does not resolve) arises in no
\* reachable state, so what the handler would do with it is not observable.
ResolveNeverRaises == raised \notin {"IndexError", "KeyError"}

\* C1: after the build, problem_ids and the index's vectors have the same
\* length, the number of documents built; position i of each belongs to the
\* same document; and every built document's identifier appears exactly once
\* in problem_ids.
C1_ParallelSequences ==
    BuildDone =>
        /\ Len(problem_ids) = Len(index)
        /\ Len(index) = Len(built)
        /\ \A i \in 1..Len(built) :
              /\ problem_ids[i] = built[i].id
              /\ index[i] = built[i].vec
              /\ Cardinality(Occurrences(built[i].id)) = 1

\* C2: the build never aborts, and once it is done, with N *.json files of
\* which M failed, N - M vectors are indexed and M error lines were printed.
C2_Resilience ==
    /\ pc \in {"new", "build", "ready", "embed", "search", "resolve", "return"}
    /\ BuildDone =>
          LET N == Cardinality(JsonFiles)
              M == N - Len(built)
          IN /\ Len(index) = N - M
             /\ Len(problem_ids) = N - M
             /\ Cardinality(ErrorLines) = M

C2_Witness ==
    /\ pc = "ready"
    /\ Cardinality(JsonFiles) = 2
    /\ Len(index) = 1
    /\ Cardinality(ErrorLines) = 1

\* C3: a failure of the query's embedding or of the index search ends the
\* call with the return value [], and no exception leaves the retriever or
\* respond.
C3_FailuresCaught ==
    /\ outcome # "raised"
    /\ reply.kind # "raised"
    /\ (AtReturn /\ raised \in {"EmbeddingError", "SearchError"}) =>
          /\ outcome = "returned"
          /\ results = <<>>

C3_Witness ==
    /\ AtReturn
    /\ caller = "respond"
    /\ raised = "SearchError"
    /\ Len(index) > 0

\* C5: a retrieval returns at most min(k, n) results, n the number of indexed
\* vectors; a corpus without documents leaves the index empty, and every
\* retrieval on it returns [] normally, its own search having raised nothing.
C5_ResultBound ==
    /\ Len(results) <= Min(top_k, Len(index))
    /\ (BuildDone /\ JsonFiles = {}) => (Len(index) = 0 /\ problem_ids = <<>>)
    /\ (AtReturn /\ Len(index) = 0) => (outcome = "returned" /\ results = <<>>)
    /\ (AtReturn /\ Len(index) = 0 /\ hits # <<>>) => raised = "none"

C5_Witness ==
    /\ AtReturn
    /\ JsonFiles = {}
    /\ Len(index) = 0
    /\ Len(hits) = TopKDefault
    /\ raised = "none"
    /\ results = <<>>

\* C6: the returned results are in non-increasing order of score.
C6_RankingOrder ==
    \A i, j \in 1..Len(results) :
        i < j => results[i].score >= results[j].score

C6_Witness ==
    /\ AtReturn
    /\ Len(results) = 2
    /\ results[1].score > results[2].score
    /\ \E i \in 1..Len(hits) : hits[i].idx < 0

\* C7: with n documents built and no failure of embedding or search, a
\* retrieval returns exactly min(k, n) results; result i carries the
\* identifier of the document whose vector row i names, the row's score and
\* the document stored for that identifier.
C7_RetrievalContent ==
    (AtReturn /\ raised = "none") =>
        /\ Len(results) = Min(top_k, Len(built))
        /\ \A i \in 1..Len(results) :
              /\ results[i].pid = built[hits[i].idx + 1].id
              /\ results[i].score = hits[i].score
              /\ results[i].data = problem_data_map[results[i].pid]
              /\ results[i].data = LoadProblem(results[i].pid)

C7_Witness ==
    /\ AtReturn
    /\ raised = "none"
    /\ Len(built) = 1
    /\ top_k = TopKDefault
    /\ Len(results) = 1
    /\ results[1].pid = <<"a">>
    /\ results[1].data = problem_data_map[<<"a">>]

\* C8: once the build is done, no step changes problem_ids, problem_data_map
\* or the index's vectors.
C8_ReadOnly == [][BuildDone => kb' = kb]_vars

C8_Witness ==
    /\ pc = "ready"
    /\ reply.kind = "generated"
    /\ Len(reply.arg) > 0
    /\ Len(index) > 0

\* C9: problem_ids is never subscripted with a negative handle, and a
\* retrieval that ends normally has one result per non-negative row: none for
\* a sentinel.
C9_SentinelFiltered ==
    /\ \A i \in 1..Len(derefs) : derefs[i] >= 0
    /\ (AtReturn /\ raised = "none") =>
          /\ Len(derefs) = Cardinality(RealRows)
          /\ Len(results) = Cardinality(RealRows)

C9_Witness ==
    /\ AtReturn
    /\ raised = "none"
    /\ Len(index) > 0
    /\ \E i \in 1..Len(hits) : hits[i].idx < 0
    /\ Len(results) = Len(index)

Lookups(n) == [i \in 1..n |-> "lookup"]

\* C10: the builder is entered once, by the constructor, and is done (the
\* bulk load included) before respond or the retriever runs; a retrieval uses
\* the embedder once, then the index once, then the store once per hit.
C10_Order ==
    /\ nbuilds <= 1
    /\ (pc # "new") => nbuilds = 1
    /\ (BuildDone \/ reply.kind # "none") =>
          /\ nbuilds = 1
          /\ pos > Len(listing)
          /\ index = embeddings
          /\ stdout[Len(stdout)].kind = "built"
    /\ pc \in {"new", "build", "ready", "embed"} => calls = <<>>
    /\ pc = "search" => calls = <<"embed">>
    /\ pc = "resolve" => calls = <<"embed", "search">>
    /\ (AtReturn /\ raised = "EmbeddingError") => calls = <<"embed">>
    /\ (AtReturn /\ raised = "SearchError") => calls = <<"embed", "search">>
    /\ (AtReturn /\ raised = "none") =>
          calls = <<"embed", "search">> \o Lookups(Len(results))

C10_Witness ==
    /\ AtReturn
    /\ caller = "respond"
    /\ calls = <<"embed", "search", "lookup", "lookup">>

====
